---- MODULE Spec2Model ----
(***************************************************************************)
(* Model of scripts/convert_flame_to_web.py: the classification of the     *)
(* vertices of a head mesh into the 61 clinical zones, by the Mask-Guided  *)
(* Subdivider (subdivide_flame_masks_to_clinical_zones) and by the         *)
(* Position-Only Classifier (_position_only_regions).                      *)
(*                                                                         *)
(* Vertex indices are 0-based as in the source; vertex i is                *)
(* v_template[i + 1].  Coordinates are integers.  Every derived real       *)
(* quantity (percentile, threshold) is kept exactly, as an integer         *)
(* multiple of 1/Den: Den = 30000 makes every percentile (multiples of     *)
(* 1/100), every product with a two-decimal factor and every division by  *)
(* 3 of the source an integer.  Floating-point rounding is not modelled.   *)
(***************************************************************************)
EXTENDS Integers, Sequences, FiniteSets, TLC

(* ---- bounds of the model ---- *)
MaxN == 3        \* vertices of the mesh in a Subdivider run
PairMaxN == 2    \* vertices of the mesh when the mapping has several keys
MaxLen == 2      \* length of an explicit index list
MaxX == 1        \* x coordinates range over -MaxX .. MaxX
MaxY == 1        \* y coordinates range over 0 .. MaxY (Subdivider runs)
MaxZ == 1        \* z coordinates range over 0 .. MaxZ (Classifier runs)
MaxKeys == 2     \* keys of a coarse-region mapping
TempleN == 4     \* vertices of the meshes of the forehead / scalp family
PosMaxN == 3     \* vertices of the mesh in a Classifier run
PosMaxY == 3     \* y coordinates range over 0 .. PosMaxY (Classifier runs)
PosGridX == 10   \* x of the finer Classifier grid ranges over -PosGridX .. PosGridX
PosGridY == 20   \* y of the finer Classifier grid ranges over 0 .. PosGridY
FrameN == 4      \* vertices of the meshes of the face / nose / lips families
FrameX == 3      \* x of those meshes ranges over -FrameX .. FrameX
FrameY == 5      \* y of those meshes ranges over 0 .. FrameY

Den == 100 * 100 * 3

VARIABLES
    v_template,   \* the vertex array: a sequence of <<x, y, z>>
    flame_masks,  \* the caller's coarse-region mapping, or NoMasks
    fm,           \* the mapping converted to index arrays (line 401)
    face_remainder, \* face minus the specific regions (line 428)
    regions,      \* the zone map under construction / returned
    pc,           \* position in the running function
    component,    \* which classification path runs
    div0,         \* whether a division by zero was performed
    calls,        \* calls begun on these inputs
    first_regions, \* what the first of two calls returned
    v_loaded,     \* whether the run has vertex positions (v_template is not None)
    files_written \* how many times the run wrote flame_regions.json

vars ==
    <<v_template, flame_masks, fm, face_remainder, regions, pc, component,
      div0, calls, first_regions, v_loaded, files_written>>

(* ---- the fixed vocabularies ---- *)
ALL_CLINICAL_ZONES ==
    << "full_face",
       "forehead", "forehead_left", "forehead_right", "forehead_center",
       "brow_left", "brow_right", "brow_inner_left", "brow_inner_right",
       "eye_left_upper", "eye_left_lower", "eye_right_upper", "eye_right_lower",
       "eye_left_corner_inner", "eye_left_corner_outer",
       "eye_right_corner_inner", "eye_right_corner_outer",
       "under_eye_left", "under_eye_right",
       "tear_trough_left", "tear_trough_right",
       "nose_bridge", "nose_bridge_upper", "nose_bridge_lower",
       "nose_tip", "nose_tip_left", "nose_tip_right",
       "nostril_left", "nostril_right", "nose_dorsum",
       "cheek_left", "cheek_right", "cheekbone_left", "cheekbone_right",
       "cheek_hollow_left", "cheek_hollow_right",
       "nasolabial_left", "nasolabial_right",
       "lip_upper", "lip_upper_left", "lip_upper_right", "lip_upper_center",
       "lip_lower", "lip_lower_left", "lip_lower_right", "lip_lower_center",
       "lip_corner_left", "lip_corner_right",
       "chin", "chin_center", "chin_left", "chin_right",
       "jaw_left", "jaw_right", "jawline_left", "jawline_right",
       "temple_left", "temple_right",
       "ear_left", "ear_right",
       "neck" >>

ZoneNames == { ALL_CLINICAL_ZONES[k] : k \in DOMAIN ALL_CLINICAL_ZONES }

\* The region names of the docstring (lines 372-374); "boundary" is a key the
\* function never reads.
FlameKeys ==
    { "nose", "lips", "forehead", "left_eye_region", "right_eye_region",
      "face", "neck", "left_ear", "right_ear", "scalp",
      "left_eyeball", "right_eyeball", "boundary" }

\* flame_masks = None in convert_flame_model: no mask file was loaded.
NoMasks == [is_none |-> TRUE, items |-> <<>>]
Masks(m) == [is_none |-> FALSE, items |-> m]

(* ---- generic helpers: Python / numpy primitives ---- *)
SeqToSet(s) == { s[k] : k \in DOMAIN s }

RECURSIVE Insert(_, _)
Insert(s, e) ==
    IF s = <<>> THEN <<e>>
    ELSE IF e <= Head(s) THEN <<e>> \o s
    ELSE <<Head(s)>> \o Insert(Tail(s), e)

RECURSIVE sorted(_)
\* Python sorted() of a list of integers: ascending, duplicates kept.
sorted(s) == IF s = <<>> THEN <<>> ELSE Insert(sorted(Tail(s)), Head(s))

RECURSIVE SetToSortedSeq(_)
SetToSortedSeq(S) ==
    IF S = {} THEN <<>>
    ELSE LET m == CHOOSE a \in S : \A b \in S : a <= b
         IN  <<m>> \o SetToSortedSeq(S \ {m})

\* dict[k] = v : the key is created when it is not there yet.
DictSet(d, k, v) ==
    [n \in (DOMAIN d) \cup {k} |-> IF n = k THEN v ELSE d[n]]

\* dict.get(k, empty array)
DictGet(d, k) == IF k \in DOMAIN d THEN d[k] ELSE <<>>

Abs(a) == IF a < 0 THEN -a ELSE a

n_verts == Len(v_template)
\* Coordinates of vertex vi, as multiples of 1/Den.
x(vi) == v_template[vi + 1][1] * Den
y(vi) == v_template[vi + 1][2] * Den
z(vi) == v_template[vi + 1][3] * Den

\* a * (num / den), exact
Frac(a, num, den) == (a * num) \div den

MaxOf(S) == CHOOSE a \in S : \A b \in S : a >= b
MinOf(S) == CHOOSE a \in S : \A b \in S : a <= b

(* ---- values a coarse-region mapping can hold ---- *)
\* A value is described by its Python kind and, for arrays, its elements;
\* a boolean mask is written with 0 / 1 for False / True.
NoneVal == [kind |-> "none", arr |-> <<>>]
StrVal == [kind |-> "str", arr |-> <<>>]
BoolVal(a) == [kind |-> "bool", arr |-> a]
IntVal(a) == [kind |-> "ints", arr |-> a]

\* _to_numpy (lines 57-91) on these values: None stays None, an ndarray is
\* returned as it is, anything else goes through np.array(obj); a string
\* becomes a 0-d array of one element.
_to_numpy(obj) ==
    CASE obj.kind = "none" -> [is_none |-> TRUE, dtype |-> "none", ndim |-> 0, size |-> 0, data |-> <<>>]
      [] obj.kind = "str"  -> [is_none |-> FALSE, dtype |-> "str", ndim |-> 0, size |-> 1, data |-> <<>>]
      [] obj.kind = "bool" -> [is_none |-> FALSE, dtype |-> "bool", ndim |-> 1, size |-> Len(obj.arr), data |-> obj.arr]
      [] obj.kind = "ints" -> [is_none |-> FALSE, dtype |-> "int64", ndim |-> 1, size |-> Len(obj.arr), data |-> obj.arr]

\* np.where(arr.astype(bool))[0]: the positions of the non-zero elements.
RECURSIVE WhereFrom(_, _)
WhereFrom(a, k) ==
    IF k > Len(a) THEN <<>>
    ELSE (IF a[k] # 0 THEN <<k - 1>> ELSE <<>>) \o WhereFrom(a, k + 1)

np_where(a) == WhereFrom(a, 1)

IndexResult(r, i) == [raised |-> r, idx |-> i]

\* Mutant of _mask_to_indices: the two None checks are missing, so None
\* reaches arr.size and the call ends in an AttributeError.
_mask_to_indices_NoNoneCheck(mask_val) ==
    LET arr == _to_numpy(mask_val) IN
    IF arr.is_none THEN IndexResult(TRUE, <<>>)
    ELSE IF arr.size = 0 THEN IndexResult(FALSE, <<>>)
    ELSE IF arr.dtype = "bool"
            \/ (arr.ndim = 1 /\ Len(arr.data) = n_verts
                   /\ MaxOf(SeqToSet(arr.data)) <= 1)
         THEN IndexResult(FALSE, np_where(arr.data))
    ELSE IF arr.dtype = "str" THEN IndexResult(TRUE, <<>>)
    ELSE IndexResult(FALSE, arr.data)

\* _mask_to_indices (lines 388-398).  raised: the call ends in an exception
\* (arr.astype(np.int64) of a non-numeric string is a ValueError).
_mask_to_indices(mask_val) ==
    IF mask_val.kind = "none" THEN IndexResult(FALSE, <<>>)
    ELSE LET arr == _to_numpy(mask_val) IN
         IF arr.is_none \/ arr.size = 0 THEN IndexResult(FALSE, <<>>)
         ELSE IF arr.dtype = "bool"
                 \/ (arr.ndim = 1 /\ Len(arr.data) = n_verts
                        /\ MaxOf(SeqToSet(arr.data)) <= 1)
              THEN IndexResult(FALSE, np_where(arr.data))
         ELSE IF arr.dtype = "str" THEN IndexResult(TRUE, <<>>)
         ELSE IndexResult(FALSE, arr.data)

(* ---- the inputs of a run ---- *)
Points == { <<px, py, 0>> : px \in (0 - MaxX)..MaxX, py \in 0..MaxY }
PosPoints ==
    { <<px, py, pz>> : px \in (0 - MaxX)..MaxX, py \in 0..PosMaxY, pz \in 0..MaxZ }

SeqsUpTo(S, n) == UNION { [1..k -> S] : k \in 0..n }

BoolMasks(n) == { BoolVal(a) : a \in [1..n -> {0, 1}] }
IndexLists(n) == { IntVal(a) : a \in SeqsUpTo(0..(n - 1), MaxLen) }
\* One key alone may hold any kind of value; several keys together hold
\* None or boolean masks.
RichVals(n) == {NoneVal, StrVal} \cup BoolMasks(n) \cup IndexLists(n)
PlainVals(n) == {NoneVal} \cup BoolMasks(n)

KeySets(n) ==
    { K \in SUBSET FlameKeys :
        Cardinality(K) <= (IF n <= PairMaxN THEN MaxKeys ELSE 1) }

MaskMaps(n) ==
    UNION { [K -> IF Cardinality(K) <= 1 THEN RichVals(n) ELSE PlainVals(n)] :
            K \in KeySets(n) }

\* The forehead / scalp family: meshes of TempleN vertices listed in
\* non-decreasing (x, y) order, with boolean masks for forehead and scalp.
PointLeq(p, q) == p[1] < q[1] \/ (p[1] = q[1] /\ p[2] <= q[2])
TempleMeshes ==
    { a \in [1..TempleN -> Points] :
        \A i \in 1..(TempleN - 1) : PointLeq(a[i], a[i + 1]) }
TempleMaps ==
    UNION { [K -> BoolMasks(TempleN)] : K \in SUBSET {"forehead", "scalp"} }

Fresh ==
    /\ fm = <<>>
    /\ face_remainder = <<>>
    /\ regions = <<>>
    /\ pc = "start"
    /\ component = "none"
    /\ div0 = FALSE
    /\ calls = 0
    /\ first_regions = <<>>
    /\ files_written = 0

Init ==
    /\ \/ \E n \in 1..MaxN :
            /\ v_template \in [1..n -> Points]
            /\ \E m \in MaskMaps(n) : flame_masks = Masks(m)
       \/ /\ v_template \in TempleMeshes
          /\ \E m \in TempleMaps : flame_masks = Masks(m)
       \/ \E n \in 1..PosMaxN :
            /\ v_template \in [1..n -> PosPoints]
            /\ flame_masks = NoMasks
    /\ v_loaded = TRUE
    /\ Fresh


(* ---- subdivide_flame_masks_to_clinical_zones: helpers ---- *)
\* Every order in which the elements of a Python set may be iterated.
Orderings(S) == { s \in [1..Cardinality(S) -> S] : SeqToSet(s) = S }

\* Several dict assignments, executed in order.
SetAll(r, kvs) ==
    LET ks == { kvs[i][1] : i \in DOMAIN kvs }
    IN  [n \in (DOMAIN r) \cup ks |->
            IF n \in ks
            THEN kvs[MaxOf({ i \in DOMAIN kvs : kvs[i][1] = n })][2]
            ELSE r[n]]

Assign(cond, k, v) == IF cond THEN << <<k, v>> >> ELSE <<>>

xs(idx) == [k \in 1..Len(idx) |-> x(idx[k])]
ys(idx) == [k \in 1..Len(idx) |-> y(idx[k])]

\* np.percentile(values, pct), linear interpolation between closest ranks;
\* np.median is the 50th percentile.
np_percentile(vals, pct) ==
    LET s == sorted(vals)
        pos == (Len(s) - 1) * pct
        lo == pos \div 100
        fr == pos % 100
    IN  IF fr = 0 THEN s[lo + 1]
        ELSE s[lo + 1] + ((s[lo + 2] - s[lo + 1]) * fr) \div 100

_median_y(idx) == IF Len(idx) = 0 THEN 0 ELSE np_percentile(ys(idx), 50)
_median_x(idx) == IF Len(idx) = 0 THEN 0 ELSE np_percentile(xs(idx), 50)
_percentile_y(idx, pct) == IF Len(idx) = 0 THEN 0 ELSE np_percentile(ys(idx), pct)
_percentile_x(idx, pct) == IF Len(idx) = 0 THEN 0 ELSE np_percentile(xs(idx), pct)

\* _split_lr returns (left, right); _split_upper_lower returns (upper, lower).
\* Mutant of _split_lr: a vertex at the threshold counts as left.
_split_lr_MidlineLeft(indices, threshold) ==
    IF Len(indices) = 0 THEN << <<>>, <<>> >>
    ELSE << SelectSeq(indices, LAMBDA vi : x(vi) >= threshold),
            SelectSeq(indices, LAMBDA vi : ~(x(vi) >= threshold)) >>

_split_lr(indices, threshold) ==
    IF Len(indices) = 0 THEN << <<>>, <<>> >>
    ELSE << SelectSeq(indices, LAMBDA vi : x(vi) > threshold),
            SelectSeq(indices, LAMBDA vi : ~(x(vi) > threshold)) >>

\* Mutant of _split_upper_lower: a vertex at the threshold counts as upper.
_split_upper_lower_AtOrAbove(indices, threshold) ==
    IF Len(indices) = 0 THEN << <<>>, <<>> >>
    ELSE << SelectSeq(indices, LAMBDA vi : y(vi) >= threshold),
            SelectSeq(indices, LAMBDA vi : ~(y(vi) >= threshold)) >>

_split_upper_lower(indices, threshold) ==
    IF Len(indices) = 0 THEN << <<>>, <<>> >>
    ELSE << SelectSeq(indices, LAMBDA vi : y(vi) > threshold),
            SelectSeq(indices, LAMBDA vi : ~(y(vi) > threshold)) >>

\* Mutant of _compute_vertex_stats: the divisors have no fallback of 1.
_compute_vertex_stats_NoFallback ==
    LET all == [k \in 1..n_verts |-> k - 1]
        y_range == MaxOf(SeqToSet(ys(all))) - MinOf(SeqToSet(ys(all)))
        x_range == MaxOf(SeqToSet(xs(all))) - MinOf(SeqToSet(xs(all)))
    IN  [y_range |-> y_range, x_range |-> x_range,
         yn_div |-> y_range, xn_div |-> x_range]

\* _compute_vertex_stats (lines 330-358): the ranges and the divisors of the
\* normalised coordinates, with their fallback of 1.
_compute_vertex_stats ==
    LET all == [k \in 1..n_verts |-> k - 1]
        y_range == MaxOf(SeqToSet(ys(all))) - MinOf(SeqToSet(ys(all)))
        x_range == MaxOf(SeqToSet(xs(all))) - MinOf(SeqToSet(xs(all)))
    IN  [y_range |-> y_range, x_range |-> x_range,
         yn_div |-> IF y_range > 0 THEN y_range ELSE Den,
         xn_div |-> IF x_range > 0 THEN x_range ELSE Den]

\* Mutant of forehead_idx: a missing forehead region is replaced by scalp.
forehead_idx_ScalpWhenAbsent ==
    IF "forehead" \in DOMAIN fm THEN fm["forehead"] ELSE DictGet(fm, "scalp")

\* lines 405-417
nose_idx == DictGet(fm, "nose")
lips_idx == DictGet(fm, "lips")
forehead_idx == DictGet(fm, "forehead")
\* Mutant of left_eye_idx: the left eye zones are cut from the right eye region.
left_eye_idx_FromTheRight == DictGet(fm, "right_eye_region")
left_eye_idx == DictGet(fm, "left_eye_region")
right_eye_idx == DictGet(fm, "right_eye_region")
face_idx == DictGet(fm, "face")
neck_idx == DictGet(fm, "neck")
left_ear_idx == DictGet(fm, "left_ear")
right_ear_idx == DictGet(fm, "right_ear")
scalp_idx == DictGet(fm, "scalp")
left_eyeball_idx == DictGet(fm, "left_eyeball")
right_eyeball_idx == DictGet(fm, "right_eyeball")

\* lines 420-424, over a converted mapping f
SpecificKeys ==
    { "nose", "lips", "forehead", "left_eye_region", "right_eye_region",
      "neck", "left_ear", "right_ear", "left_eyeball", "right_eyeball" }

\* Mutant of specific_regions: the eyeballs are not subtracted.
specific_regions_WithoutEyeballs(f) ==
    UNION { SeqToSet(f[k]) :
              k \in (SpecificKeys \ {"left_eyeball", "right_eyeball"}) \cap DOMAIN f }

specific_regions(f) ==
    UNION { SeqToSet(f[k]) : k \in SpecificKeys \cap DOMAIN f }

\* lines 497-499
midline_x == IF Len(nose_idx) > 0 THEN np_percentile(xs(nose_idx), 50) ELSE 0

EmptyRegions == [name \in ZoneNames |-> <<>>]

\* Mutant of convert_dispatch: the loaded mapping is ignored.
convert_dispatch_MasksIgnored ==
    IF v_loaded THEN "classifier" ELSE "neither"

\* convert_flame_model lines 1130 and 1167: which classification path the
\* run takes
convert_dispatch ==
    IF ~flame_masks.is_none /\ v_loaded THEN "subdivider"
    ELSE IF v_loaded /\ flame_masks.is_none THEN "classifier"
    ELSE "neither"

\* Mutant of masks_after_conversion: the loop stores each converted array
\* back under its key in the caller's mapping.
masks_after_conversion_InPlace(f) ==
    Masks([k \in DOMAIN f |-> IntVal(f[k])])

\* lines 400-403: the caller's mapping after the conversion loop; the loop
\* assigns to the new dict fm and only reads flame_masks
masks_after_conversion(f) == flame_masks

\* lines 382-433: statistics, conversion of the mapping, face remainder,
\* empty zone map.  A conversion that raises ends the call.
Normalise ==
    /\ pc = "start"
    /\ convert_dispatch = "subdivider"
    /\ component' = "subdivider"
    /\ calls' = calls + 1
    /\ LET stats == _compute_vertex_stats
           conv == [k \in DOMAIN flame_masks.items |->
                       _mask_to_indices(flame_masks.items[k])]
           f == [k \in DOMAIN conv |-> conv[k].idx]
           face == DictGet(f, "face")
       IN  /\ div0' = (div0 \/ stats.yn_div = 0 \/ stats.xn_div = 0)
           /\ flame_masks' = masks_after_conversion(f)
           /\ IF \E k \in DOMAIN conv : conv[k].raised
              THEN /\ pc' = "raised"
                   /\ UNCHANGED <<fm, face_remainder, regions>>
              ELSE /\ pc' = "regions"
                   /\ fm' = f
                   /\ regions' = EmptyRegions
                   /\ IF Len(face) > 0
                      THEN \E order \in Orderings(SeqToSet(face) \ specific_regions(f)) :
                               face_remainder' = sorted(order)
                      ELSE face_remainder' = <<>>
    /\ UNCHANGED <<v_template, first_regions, v_loaded, files_written>>

\* lines 504-562
ForeheadSubdivision(r) ==
    IF Len(forehead_idx) = 0 THEN r
    ELSE
    LET fh_y_med == _median_y(forehead_idx)
        fh_y_lo == _percentile_y(forehead_idx, 15)
        fh_x_lo == _percentile_x(forehead_idx, 25)
        fh_x_hi == _percentile_x(forehead_idx, 75)
        fh_third_width == Frac(fh_x_hi - fh_x_lo, 1, 3)
        center_lo == fh_x_lo + fh_third_width
        center_hi == fh_x_hi - fh_third_width
        brow_y_threshold == fh_y_lo + Frac(fh_y_med - fh_y_lo, 3, 10)
        brow_candidates ==
            SelectSeq(forehead_idx, LAMBDA vi : y(vi) <= brow_y_threshold)
        brow_lr == _split_lr(brow_candidates, midline_x)
        brow_left_cands == brow_lr[1]
        brow_right_cands == brow_lr[2]
        inner_brow_x_range == Frac(fh_x_hi - fh_x_lo, 15, 100)
        temple_x_threshold_hi == _percentile_x(forehead_idx, 85)
        temple_x_threshold_lo == _percentile_x(forehead_idx, 15)
        temple_y_lo == _percentile_y(forehead_idx, 10)
        temple_y_hi == _percentile_y(forehead_idx, 70)
        temple_candidates ==
            SelectSeq(forehead_idx,
                      LAMBDA vi : y(vi) >= temple_y_lo /\ y(vi) <= temple_y_hi)
    IN  SetAll(r,
          << <<"forehead", sorted(forehead_idx)>>,
             \* the loop of lines 517-526 appends in the order of forehead_idx
             <<"forehead_left",
               r["forehead_left"] \o
                 SelectSeq(forehead_idx, LAMBDA vi : x(vi) > center_hi)>>,
             <<"forehead_right",
               r["forehead_right"] \o
                 SelectSeq(forehead_idx,
                           LAMBDA vi : ~(x(vi) > center_hi) /\ x(vi) < center_lo)>>,
             <<"forehead_center",
               r["forehead_center"] \o
                 SelectSeq(forehead_idx,
                           LAMBDA vi : ~(x(vi) > center_hi) /\ ~(x(vi) < center_lo))>>,
             <<"brow_left", sorted(brow_left_cands)>>,
             <<"brow_right", sorted(brow_right_cands)>> >>
          \o Assign(Len(brow_left_cands) > 0, "brow_inner_left",
                sorted(SelectSeq(brow_left_cands,
                    LAMBDA vi : x(vi) < midline_x + inner_brow_x_range)))
          \o Assign(Len(brow_right_cands) > 0, "brow_inner_right",
                sorted(SelectSeq(brow_right_cands,
                    LAMBDA vi : x(vi) > midline_x - inner_brow_x_range)))
          \o Assign(Len(temple_candidates) > 0, "temple_left",
                sorted(SelectSeq(temple_candidates,
                    LAMBDA vi : x(vi) > temple_x_threshold_hi)))
          \o Assign(Len(temple_candidates) > 0, "temple_right",
                sorted(SelectSeq(temple_candidates,
                    LAMBDA vi : x(vi) < temple_x_threshold_lo))))


\* lines 567-643, one pass of the loop: side is "left" or "right"
\* Mutant of eye_skin: an emptied eye-skin set is replaced by the eyeball
\* vertices.
eye_skin_FallsBackToEyeball(eye_idx, eyeball_set) ==
    LET skin == SelectSeq(eye_idx, LAMBDA vi : vi \notin eyeball_set)
    IN  IF Len(skin) = 0 THEN SetToSortedSeq(eyeball_set) ELSE skin

\* Mutant of eye_skin: an emptied eye-skin set stays empty.
eye_skin_NoFallback(eye_idx, eyeball_set) ==
    SelectSeq(eye_idx, LAMBDA vi : vi \notin eyeball_set)

\* lines 593-595: the eye region without the eyeball vertices, or the eye
\* region itself when nothing is left
eye_skin(eye_idx, eyeball_set) ==
    LET skin == SelectSeq(eye_idx, LAMBDA vi : vi \notin eyeball_set)
    IN  IF Len(skin) = 0 THEN eye_idx ELSE skin

EyeSubdivision(r, side) ==
    LET eye_idx == IF side = "left" THEN left_eye_idx ELSE right_eye_idx
        eyeball_idx == IF side = "left" THEN left_eyeball_idx ELSE right_eyeball_idx
    IN
    IF Len(eye_idx) = 0 THEN r
    ELSE
    LET eye_med_y == _median_y(eye_idx)
        eye_y_lo == _percentile_y(eye_idx, 10)
        eye_y_hi == _percentile_y(eye_idx, 90)
        eyeball_set == IF Len(eyeball_idx) > 0 THEN SeqToSet(eyeball_idx) ELSE {}
        eye_skin_idx == eye_skin(eye_idx, eyeball_set)
        ul == _split_upper_lower(eye_skin_idx, eye_med_y)
        upper_eye == ul[1]
        lower_eye == ul[2]
        corner_band ==
            SelectSeq(eye_skin_idx,
                LAMBDA vi : Abs(y(vi) - eye_med_y) < Frac(eye_y_hi - eye_y_lo, 3, 10))
        p15 == _percentile_x(corner_band, 15)
        p85 == _percentile_x(corner_band, 85)
        under_eye_candidates == lower_eye
        ue_med_x == _median_x(under_eye_candidates)
    IN  SetAll(r,
          << <<"eye_" \o side \o "_upper", sorted(upper_eye)>>,
             <<"eye_" \o side \o "_lower", sorted(lower_eye)>> >>
          \o Assign(Len(corner_band) > 0, "eye_" \o side \o "_corner_inner",
                sorted(SelectSeq(corner_band,
                    LAMBDA vi : IF side = "left" THEN x(vi) <= p15
                                ELSE x(vi) >= p85)))
          \o Assign(Len(corner_band) > 0, "eye_" \o side \o "_corner_outer",
                sorted(SelectSeq(corner_band,
                    LAMBDA vi : IF side = "left" THEN x(vi) >= p85
                                ELSE x(vi) <= p15)))
          \o << <<"under_eye_" \o side, sorted(under_eye_candidates)>> >>
          \o Assign(Len(under_eye_candidates) > 0, "tear_trough_" \o side,
                sorted(SelectSeq(under_eye_candidates,
                    LAMBDA vi : IF side = "left" THEN x(vi) < ue_med_x
                                ELSE x(vi) > ue_med_x))))


\* Mutant of nose_dorsum: the dorsum is the part of the bridge above the
\* bridge's median y.
nose_dorsum_UpperOnly(bridge_cands) ==
    sorted(SelectSeq(bridge_cands, LAMBDA vi : y(vi) > _median_y(bridge_cands)))

\* line 663: the dorsum spans the full bridge
nose_dorsum(bridge_cands) == sorted(bridge_cands)

\* lines 648-704
\* line 665
\* Mutant of bridge_mid_y: the bridge is split at the median of the whole nose.
bridge_mid_y_OfTheNose(bridge_cands, nose_med_y) == nose_med_y

bridge_mid_y(bridge_cands, nose_med_y) ==
    IF Len(bridge_cands) > 0 THEN _median_y(bridge_cands) ELSE nose_med_y

NoseSubdivision(r) ==
    IF Len(nose_idx) = 0 THEN r
    ELSE
    LET nose_med_y == _median_y(nose_idx)
        nose_y_lo == _percentile_y(nose_idx, 5)
        nose_y_hi == _percentile_y(nose_idx, 95)
        nose_y_range == nose_y_hi - nose_y_lo
        nose_x_lo == _percentile_x(nose_idx, 10)
        nose_x_hi == _percentile_x(nose_idx, 90)
        bridge_y_thresh == nose_y_lo + Frac(nose_y_range, 40, 100)
        bridge_x_half == Frac(nose_x_hi - nose_x_lo, 35, 100)
        bridge_cands ==
            SelectSeq(nose_idx,
                LAMBDA vi : y(vi) > bridge_y_thresh
                            /\ Abs(x(vi) - midline_x) < bridge_x_half)
        mid_y == bridge_mid_y(bridge_cands, nose_med_y)
        tip_y_thresh == nose_y_lo + Frac(nose_y_range, 30, 100)
        tip_band ==
            SelectSeq(nose_idx,
                LAMBDA vi : y(vi) <= tip_y_thresh
                            /\ y(vi) > nose_y_lo + Frac(nose_y_range, 10, 100))
        tip_x_half == Frac(nose_x_hi - nose_x_lo, 35, 100)
        tip_cands ==
            IF Len(tip_band) > 0
            THEN SelectSeq(tip_band, LAMBDA vi : Abs(x(vi) - midline_x) < tip_x_half)
            ELSE tip_band
        nostril_y_thresh == nose_y_lo + Frac(nose_y_range, 30, 100)
        nostril_cands == SelectSeq(nose_idx, LAMBDA vi : y(vi) <= nostril_y_thresh)
        nostril_x_inner == Frac(nose_x_hi - nose_x_lo, 15, 100)
    IN  SetAll(r,
          << <<"nose_bridge", sorted(bridge_cands)>>,
             <<"nose_dorsum", nose_dorsum(bridge_cands)>> >>
          \o Assign(Len(bridge_cands) > 0, "nose_bridge_upper",
                sorted(SelectSeq(bridge_cands, LAMBDA vi : y(vi) > mid_y)))
          \o Assign(Len(bridge_cands) > 0, "nose_bridge_lower",
                sorted(SelectSeq(bridge_cands, LAMBDA vi : y(vi) <= mid_y)))
          \o << <<"nose_tip", sorted(tip_cands)>> >>
          \o Assign(Len(tip_cands) > 0, "nose_tip_left",
                sorted(SelectSeq(tip_cands, LAMBDA vi : x(vi) > midline_x)))
          \o Assign(Len(tip_cands) > 0, "nose_tip_right",
                sorted(SelectSeq(tip_cands, LAMBDA vi : x(vi) <= midline_x)))
          \o Assign(Len(nostril_cands) > 0, "nostril_left",
                sorted(SelectSeq(nostril_cands,
                    LAMBDA vi : x(vi) > midline_x + nostril_x_inner)))
          \o Assign(Len(nostril_cands) > 0, "nostril_right",
                sorted(SelectSeq(nostril_cands,
                    LAMBDA vi : x(vi) < midline_x - nostril_x_inner))))


\* lines 709-760
LipsSubdivision(r) ==
    IF Len(lips_idx) = 0 THEN r
    ELSE
    LET lips_y_med == _median_y(lips_idx)
        lips_x_lo == _percentile_x(lips_idx, 5)
        lips_x_hi == _percentile_x(lips_idx, 95)
        lips_x_third == Frac(lips_x_hi - lips_x_lo, 1, 3)
        ul == _split_upper_lower(lips_idx, lips_y_med)
        upper_lip == ul[1]
        lower_lip == ul[2]
        center_lo_x == lips_x_lo + lips_x_third
        center_hi_x == lips_x_hi - lips_x_third
        y_span == MaxOf(SeqToSet(ys(lips_idx))) - MinOf(SeqToSet(ys(lips_idx)))
        corner_band_lo == lips_y_med - Frac(y_span, 20, 100)
        corner_band_hi == lips_y_med + Frac(y_span, 20, 100)
        corner_cands ==
            SelectSeq(lips_idx,
                LAMBDA vi : y(vi) >= corner_band_lo /\ y(vi) <= corner_band_hi)
        corner_x_thresh_hi == _percentile_x(corner_cands, 85)
        corner_x_thresh_lo == _percentile_x(corner_cands, 15)
        Left(c) == sorted(SelectSeq(c, LAMBDA vi : x(vi) > center_hi_x))
        Right(c) == sorted(SelectSeq(c, LAMBDA vi : x(vi) < center_lo_x))
        Center(c) ==
            sorted(SelectSeq(c,
                LAMBDA vi : x(vi) >= center_lo_x /\ x(vi) <= center_hi_x))
    IN  SetAll(r,
          << <<"lip_upper", sorted(upper_lip)>>,
             <<"lip_lower", sorted(lower_lip)>> >>
          \o Assign(Len(upper_lip) > 0, "lip_upper_left", Left(upper_lip))
          \o Assign(Len(upper_lip) > 0, "lip_upper_right", Right(upper_lip))
          \o Assign(Len(upper_lip) > 0, "lip_upper_center", Center(upper_lip))
          \o Assign(Len(lower_lip) > 0, "lip_lower_left", Left(lower_lip))
          \o Assign(Len(lower_lip) > 0, "lip_lower_right", Right(lower_lip))
          \o Assign(Len(lower_lip) > 0, "lip_lower_center", Center(lower_lip))
          \o Assign(Len(corner_cands) > 0, "lip_corner_left",
                sorted(SelectSeq(corner_cands,
                    LAMBDA vi : x(vi) > corner_x_thresh_hi)))
          \o Assign(Len(corner_cands) > 0, "lip_corner_right",
                sorted(SelectSeq(corner_cands,
                    LAMBDA vi : x(vi) < corner_x_thresh_lo))))


\* lines 765-859
FaceRemainderSubdivision(r) ==
    IF Len(face_remainder) = 0 THEN r
    ELSE
    LET fr_y_lo == _percentile_y(face_remainder, 5)
        fr_y_hi == _percentile_y(face_remainder, 95)
        fr_y_range == fr_y_hi - fr_y_lo
        x_span == MaxOf(SeqToSet(xs(face_remainder)))
                    - MinOf(SeqToSet(xs(face_remainder)))
        chin_y_thresh == fr_y_lo + Frac(fr_y_range, 25, 100)
        chin_x_half == Frac(x_span, 25, 100)
        chin_cands ==
            SelectSeq(face_remainder,
                LAMBDA vi : y(vi) <= chin_y_thresh
                            /\ Abs(x(vi) - midline_x) < chin_x_half)
        chin_third == Frac(chin_x_half, 2, 3)
        jaw_y_thresh == fr_y_lo + Frac(fr_y_range, 40, 100)
        jaw_x_inner == chin_x_half
        jaw_cands ==
            SelectSeq(face_remainder,
                LAMBDA vi : y(vi) <= jaw_y_thresh
                            /\ Abs(x(vi) - midline_x) >= jaw_x_inner)
        jaw_lr == _split_lr(jaw_cands, midline_x)
        jaw_left == jaw_lr[1]
        jaw_right == jaw_lr[2]
        jl_y_thresh == _percentile_y(jaw_left, 35)
        jr_y_thresh == _percentile_y(jaw_right, 35)
        cheek_y_lo == fr_y_lo + Frac(fr_y_range, 25, 100)
        cheek_y_hi == fr_y_lo + Frac(fr_y_range, 70, 100)
        cheek_x_inner == Frac(x_span, 10, 100)
        cheek_cands ==
            SelectSeq(face_remainder,
                LAMBDA vi : y(vi) >= cheek_y_lo /\ y(vi) <= cheek_y_hi
                            /\ Abs(x(vi) - midline_x) > cheek_x_inner)
        cheek_lr == _split_lr(cheek_cands, midline_x)
        cheek_left == cheek_lr[1]
        cheek_right == cheek_lr[2]
        cheek_mid_y ==
            IF Len(cheek_cands) > 0 THEN _median_y(cheek_cands)
            ELSE Frac(cheek_y_lo + cheek_y_hi, 1, 2)
        nl_on == Len(nose_idx) > 0 /\ Len(lips_idx) > 0
        nl_y_lo == _percentile_y(lips_idx, 50)
        nl_y_hi == _percentile_y(nose_idx, 30)
        nose_x_range == _percentile_x(nose_idx, 90) - _percentile_x(nose_idx, 10)
        nl_x_inner == Frac(nose_x_range, 4, 10)
        nl_x_outer == Frac(nose_x_range, 9, 10)
        nl_cands ==
            SelectSeq(face_remainder,
                LAMBDA vi : y(vi) >= nl_y_lo /\ y(vi) <= nl_y_hi
                            /\ Abs(x(vi) - midline_x) >= nl_x_inner
                            /\ Abs(x(vi) - midline_x) <= nl_x_outer)
        nl_lr == _split_lr(nl_cands, midline_x)
    IN  SetAll(r,
          << <<"chin", sorted(chin_cands)>> >>
          \o Assign(Len(chin_cands) > 0, "chin_center",
                sorted(SelectSeq(chin_cands,
                    LAMBDA vi : Abs(x(vi) - midline_x) < Frac(chin_third, 1, 2))))
          \o Assign(Len(chin_cands) > 0, "chin_left",
                sorted(SelectSeq(chin_cands,
                    LAMBDA vi : x(vi) > midline_x + Frac(chin_third, 1, 2))))
          \o Assign(Len(chin_cands) > 0, "chin_right",
                sorted(SelectSeq(chin_cands,
                    LAMBDA vi : x(vi) < midline_x - Frac(chin_third, 1, 2))))
          \o << <<"jaw_left", sorted(jaw_left)>>,
                <<"jaw_right", sorted(jaw_right)>> >>
          \o Assign(Len(jaw_left) > 0, "jawline_left",
                sorted(SelectSeq(jaw_left, LAMBDA vi : y(vi) < jl_y_thresh)))
          \o Assign(Len(jaw_right) > 0, "jawline_right",
                sorted(SelectSeq(jaw_right, LAMBDA vi : y(vi) < jr_y_thresh)))
          \o << <<"cheek_left", sorted(cheek_left)>>,
                <<"cheek_right", sorted(cheek_right)>> >>
          \o Assign(Len(cheek_left) > 0, "cheekbone_left",
                sorted(SelectSeq(cheek_left, LAMBDA vi : y(vi) > cheek_mid_y)))
          \o Assign(Len(cheek_left) > 0, "cheek_hollow_left",
                sorted(SelectSeq(cheek_left, LAMBDA vi : y(vi) <= cheek_mid_y)))
          \o Assign(Len(cheek_right) > 0, "cheekbone_right",
                sorted(SelectSeq(cheek_right, LAMBDA vi : y(vi) > cheek_mid_y)))
          \o Assign(Len(cheek_right) > 0, "cheek_hollow_right",
                sorted(SelectSeq(cheek_right, LAMBDA vi : y(vi) <= cheek_mid_y)))
          \o Assign(nl_on, "nasolabial_left", sorted(nl_lr[1]))
          \o Assign(nl_on, "nasolabial_right", sorted(nl_lr[2])))


\* Mutant of EarsNeckPassThrough: the zones are stored under the names of
\* the coarse regions.
EarsNeckPassThrough_FlameNames(r) ==
    SetAll(r, << <<"left_ear", sorted(left_ear_idx)>>,
                 <<"right_ear", sorted(right_ear_idx)>>,
                 <<"neck", sorted(neck_idx)>> >>)

\* Mutant of EarsNeckPassThrough: vertices of the face region are filtered
\* out of the three zones.
EarsNeckPassThrough_MinusFace(r) ==
    SetAll(r, << <<"ear_left", sorted(SelectSeq(left_ear_idx,
                                  LAMBDA vi : vi \notin SeqToSet(face_idx)))>>,
                 <<"ear_right", sorted(SelectSeq(right_ear_idx,
                                  LAMBDA vi : vi \notin SeqToSet(face_idx)))>>,
                 <<"neck", sorted(SelectSeq(neck_idx,
                                  LAMBDA vi : vi \notin SeqToSet(face_idx)))>> >>)

\* Mutant of EarsNeckPassThrough: the indices are stored 1-based.
EarsNeckPassThrough_OneBased(r) ==
    SetAll(r, << <<"ear_left", sorted([k \in DOMAIN left_ear_idx |-> left_ear_idx[k] + 1])>>,
                 <<"ear_right", sorted([k \in DOMAIN right_ear_idx |-> right_ear_idx[k] + 1])>>,
                 <<"neck", sorted([k \in DOMAIN neck_idx |-> neck_idx[k] + 1])>> >>)

\* lines 864-866
EarsNeckPassThrough(r) ==
    SetAll(r, << <<"ear_left", sorted(left_ear_idx)>>,
                 <<"ear_right", sorted(right_ear_idx)>>,
                 <<"neck", sorted(neck_idx)>> >>)


\* lines 504-866: the stages that fill the zones from the coarse regions,
\* in the order of the source
SubdivideRegions ==
    /\ pc = "regions"
    /\ regions' =
          EarsNeckPassThrough(
            FaceRemainderSubdivision(
              LipsSubdivision(
                NoseSubdivision(
                  EyeSubdivision(
                    EyeSubdivision(ForeheadSubdivision(regions), "left"),
                    "right")))))
    /\ pc' = "temples"
    /\ UNCHANGED <<v_template, flame_masks, fm, face_remainder, component, div0, calls, first_regions, v_loaded, files_written>>

\* Mutant of TempleFallbackRuns: an empty temple_right triggers the
\* fallback as well.
TempleFallbackRuns_EitherEmpty(r) ==
    (r["temple_left"] = <<>> \/ r["temple_right"] = <<>>) /\ Len(scalp_idx) > 0

\* line 871: the condition of the scalp fallback
TempleFallbackRuns(r) == r["temple_left"] = <<>> /\ Len(scalp_idx) > 0

\* Mutant of TempleFallback: the scalp-derived vertices are merged into
\* what the temple zones already hold.
TempleFallback_Merges(r) ==
    IF ~TempleFallbackRuns(r) THEN r
    ELSE
    LET scalp_y_med == _median_y(scalp_idx)
        scalp_low == SelectSeq(scalp_idx, LAMBDA vi : y(vi) < scalp_y_med)
        temple_x_thresh == _percentile_x(scalp_low, 70)
        temple_x_thresh_r == _percentile_x(scalp_low, 30)
    IN  SetAll(r,
          Assign(Len(scalp_low) > 0, "temple_left",
                SetToSortedSeq(SeqToSet(r["temple_left"]) \cup
                    SeqToSet(SelectSeq(scalp_low, LAMBDA vi : x(vi) > temple_x_thresh))))
          \o Assign(Len(scalp_low) > 0, "temple_right",
                SetToSortedSeq(SeqToSet(r["temple_right"]) \cup
                    SeqToSet(SelectSeq(scalp_low, LAMBDA vi : x(vi) < temple_x_thresh_r)))))

\* lines 871-884
TempleFallback(r) ==
    IF ~TempleFallbackRuns(r) THEN r
    ELSE
    LET scalp_y_med == _median_y(scalp_idx)
        scalp_low == SelectSeq(scalp_idx, LAMBDA vi : y(vi) < scalp_y_med)
        temple_x_thresh == _percentile_x(scalp_low, 70)
        temple_x_thresh_r == _percentile_x(scalp_low, 30)
    IN  SetAll(r,
          Assign(Len(scalp_low) > 0, "temple_left",
                sorted(SelectSeq(scalp_low, LAMBDA vi : x(vi) > temple_x_thresh)))
          \o Assign(Len(scalp_low) > 0, "temple_right",
                sorted(SelectSeq(scalp_low, LAMBDA vi : x(vi) < temple_x_thresh_r))))

Temples ==
    /\ pc = "temples"
    /\ regions' = TempleFallback(regions)
    /\ pc' = "full_face"
    /\ UNCHANGED <<v_template, flame_masks, fm, face_remainder, component, div0, calls, first_regions, v_loaded, files_written>>

\* line 890
exclude_from_full == { "neck", "ear_left", "ear_right", "full_face" }

\* Mutant of full_face_set: the union leaves the temple zones out, as if it
\* were built before the scalp fallback.
full_face_set_WithoutTemples(r) ==
    UNION { SeqToSet(r[ALL_CLINICAL_ZONES[k]]) :
            k \in { j \in DOMAIN ALL_CLINICAL_ZONES :
                       ALL_CLINICAL_ZONES[j] \notin
                         exclude_from_full \cup {"temple_left", "temple_right"} } }
    \cup SeqToSet(face_idx) \cup SeqToSet(forehead_idx) \cup SeqToSet(nose_idx)
    \cup SeqToSet(lips_idx) \cup SeqToSet(left_eye_idx) \cup SeqToSet(right_eye_idx)

\* Mutant of full_face_set: the raw scalp region is added to the union.
full_face_set_WithScalp(r) ==
    UNION { SeqToSet(r[ALL_CLINICAL_ZONES[k]]) :
            k \in { j \in DOMAIN ALL_CLINICAL_ZONES :
                       ALL_CLINICAL_ZONES[j] \notin exclude_from_full } }
    \cup SeqToSet(face_idx) \cup SeqToSet(forehead_idx) \cup SeqToSet(nose_idx)
    \cup SeqToSet(lips_idx) \cup SeqToSet(left_eye_idx) \cup SeqToSet(right_eye_idx)
    \cup SeqToSet(scalp_idx)

\* lines 889-906: the set whose elements become full_face
full_face_set(r) ==
    UNION { SeqToSet(r[ALL_CLINICAL_ZONES[k]]) :
            k \in { j \in DOMAIN ALL_CLINICAL_ZONES :
                       ALL_CLINICAL_ZONES[j] \notin exclude_from_full } }
    \cup SeqToSet(face_idx) \cup SeqToSet(forehead_idx) \cup SeqToSet(nose_idx)
    \cup SeqToSet(lips_idx) \cup SeqToSet(left_eye_idx) \cup SeqToSet(right_eye_idx)

\* Mutant of FullFaceList: list(full_face_set) without sorted().
FullFaceList_Unsorted(order) == order

\* line 907, for one iteration order of the set
FullFaceList(order) == sorted(order)

\* lines 889-909: the last stage; the function returns regions
FullFace ==
    /\ pc = "full_face"
    /\ \E order \in Orderings(full_face_set(regions)) :
           regions' = DictSet(regions, "full_face", FullFaceList(order))
    /\ pc' = "done"
    /\ UNCHANGED <<v_template, flame_masks, fm, face_remainder, component, div0, calls, first_regions, v_loaded, files_written>>

(* ---- _position_only_regions (lines 1492-1687) ---- *)
AllVertices == [k \in 1..n_verts |-> k - 1]
pos_y_min == MinOf(SeqToSet(ys(AllVertices)))
pos_y_range == MaxOf(SeqToSet(ys(AllVertices))) - pos_y_min
pos_x_min == MinOf(SeqToSet(xs(AllVertices)))
pos_x_max == MaxOf(SeqToSet(xs(AllVertices)))
pos_x_range == pos_x_max - pos_x_min
pos_z_sum ==
    MinOf({ z(vi) : vi \in SeqToSet(AllVertices) })
      + MaxOf({ z(vi) : vi \in SeqToSet(AllVertices) })

\* yn = (vy - y_min) / y_range and xn = (vx - midline) / (x_range / 2) are
\* compared with literals given in hundredths.  With a range of 0 the
\* quotient is 0/0 = NaN, and every comparison with NaN is False.
YnLt(vi, c) == pos_y_range # 0 /\ (y(vi) - pos_y_min) * 100 < c * pos_y_range
YnGt(vi, c) == pos_y_range # 0 /\ (y(vi) - pos_y_min) * 100 > c * pos_y_range
XnNum(vi) == 2 * x(vi) - pos_x_min - pos_x_max
XnLt(vi, c) == pos_x_range # 0 /\ XnNum(vi) * 100 < c * pos_x_range
XnGt(vi, c) == pos_x_range # 0 /\ XnNum(vi) * 100 > c * pos_x_range
AbsXnLt(vi, c) == pos_x_range # 0 /\ Abs(XnNum(vi)) * 100 < c * pos_x_range
AbsXnGt(vi, c) == pos_x_range # 0 /\ Abs(XnNum(vi)) * 100 > c * pos_x_range
YnBetween(vi, lo, hi) == YnGt(vi, lo) /\ YnLt(vi, hi)
XnBetween(vi, lo, hi) == XnGt(vi, lo) /\ XnLt(vi, hi)

When(c, names) == IF c THEN names ELSE <<>>

\* The zone names vertex vi is appended to, in the order of the appends
\* (the body of the loop, lines 1514-1685).
\* line 1517: is_front = vz > z_mid
IsFront(vi) == 2 * z(vi) > pos_z_sum

\* lines 1527-1685: the zones of a front vertex that is not in neck
FaceAppends(vi) ==
       When(YnGt(vi, 10), <<"full_face">>)
    \o When(YnGt(vi, 75),
            <<"forehead">> \o
            (IF XnGt(vi, 15) THEN <<"forehead_left">>
             ELSE IF XnLt(vi, -15) THEN <<"forehead_right">>
             ELSE <<"forehead_center">>))
    \o When(YnBetween(vi, 65, 75),
            When(XnGt(vi, 10),
                 <<"brow_left">> \o When(XnLt(vi, 30), <<"brow_inner_left">>))
         \o When(XnLt(vi, -10),
                 <<"brow_right">> \o When(XnGt(vi, -30), <<"brow_inner_right">>)))
    \o When(YnBetween(vi, 55, 68),
            When(XnBetween(vi, 15, 55),
                 (IF YnGt(vi, 62) THEN <<"eye_left_upper">> ELSE <<"eye_left_lower">>)
                 \o When(XnLt(vi, 25), <<"eye_left_corner_inner">>)
                 \o When(XnGt(vi, 45), <<"eye_left_corner_outer">>))
         \o When(XnBetween(vi, -55, -15),
                 (IF YnGt(vi, 62) THEN <<"eye_right_upper">> ELSE <<"eye_right_lower">>)
                 \o When(XnGt(vi, -25), <<"eye_right_corner_inner">>)
                 \o When(XnLt(vi, -45), <<"eye_right_corner_outer">>)))
    \o When(YnBetween(vi, 48, 58),
            When(XnBetween(vi, 10, 50),
                 <<"under_eye_left">> \o When(XnLt(vi, 30), <<"tear_trough_left">>))
         \o When(XnBetween(vi, -50, -10),
                 <<"under_eye_right">> \o When(XnGt(vi, -30), <<"tear_trough_right">>)))
    \o When(YnBetween(vi, 35, 60) /\ AbsXnLt(vi, 15),
            <<"nose_bridge", "nose_dorsum">> \o
            (IF YnGt(vi, 48) THEN <<"nose_bridge_upper">> ELSE <<"nose_bridge_lower">>))
    \o When(YnBetween(vi, 30, 40) /\ AbsXnLt(vi, 15),
            <<"nose_tip">> \o
            (IF XnGt(vi, 0) THEN <<"nose_tip_left">> ELSE <<"nose_tip_right">>))
    \o When(YnBetween(vi, 28, 38),
            When(XnBetween(vi, 8, 22), <<"nostril_left">>)
         \o When(XnBetween(vi, -22, -8), <<"nostril_right">>))
    \o When(YnBetween(vi, 30, 55) /\ AbsXnGt(vi, 25),
            IF XnGt(vi, 0)
            THEN <<"cheek_left">> \o
                 (IF YnGt(vi, 42) THEN <<"cheekbone_left">> ELSE <<"cheek_hollow_left">>)
            ELSE <<"cheek_right">> \o
                 (IF YnGt(vi, 42) THEN <<"cheekbone_right">> ELSE <<"cheek_hollow_right">>))
    \o When(YnBetween(vi, 28, 48) /\ AbsXnGt(vi, 15) /\ AbsXnLt(vi, 28),
            IF XnGt(vi, 0) THEN <<"nasolabial_left">> ELSE <<"nasolabial_right">>)
    \o When(YnBetween(vi, 22, 32) /\ AbsXnLt(vi, 25),
            (IF YnGt(vi, 27)
             THEN <<"lip_upper">> \o
                  (IF XnGt(vi, 6) THEN <<"lip_upper_left">>
                   ELSE IF XnLt(vi, -6) THEN <<"lip_upper_right">>
                   ELSE <<"lip_upper_center">>)
             ELSE <<"lip_lower">> \o
                  (IF XnGt(vi, 6) THEN <<"lip_lower_left">>
                   ELSE IF XnLt(vi, -6) THEN <<"lip_lower_right">>
                   ELSE <<"lip_lower_center">>))
         \o When(YnBetween(vi, 24, 30) /\ AbsXnGt(vi, 18),
                 IF XnGt(vi, 0) THEN <<"lip_corner_left">> ELSE <<"lip_corner_right">>))
    \o When(YnBetween(vi, 12, 24) /\ AbsXnLt(vi, 30),
            <<"chin">> \o
            (IF AbsXnLt(vi, 10) THEN <<"chin_center">>
             ELSE IF XnGt(vi, 0) THEN <<"chin_left">>
             ELSE <<"chin_right">>))
    \o When(YnBetween(vi, 10, 30) /\ AbsXnGt(vi, 25),
            IF XnGt(vi, 0)
            THEN <<"jaw_left">> \o When(YnLt(vi, 18), <<"jawline_left">>)
            ELSE <<"jaw_right">> \o When(YnLt(vi, 18), <<"jawline_right">>))
    \o When(YnBetween(vi, 60, 78) /\ AbsXnGt(vi, 50),
            IF XnGt(vi, 0) THEN <<"temple_left">> ELSE <<"temple_right">>)
    \o When(YnBetween(vi, 40, 70) /\ AbsXnGt(vi, 80),
            IF XnGt(vi, 0) THEN <<"ear_left">> ELSE <<"ear_right">>)

\* Mutant of ZoneAppends: the front-facing gate comes before the neck test.
ZoneAppends_GateFirst(vi) ==
    IF ~IsFront(vi) THEN <<>>
    ELSE IF YnLt(vi, 10) THEN <<"neck">>
    ELSE FaceAppends(vi)

\* Mutant of ZoneAppends: there is no front-facing gate.
ZoneAppends_NoGate(vi) ==
    IF YnLt(vi, 10) THEN <<"neck">> ELSE FaceAppends(vi)

\* lines 1513-1685: the names vertex vi is appended to, in the order of
\* the appends
ZoneAppends(vi) ==
    IF YnLt(vi, 10) THEN <<"neck">>
    ELSE IF ~IsFront(vi) THEN <<>>
    ELSE FaceAppends(vi)

RECURSIVE AppendNames(_, _, _)
\* regions[name].append(vi) for each name of names
AppendNames(r, names, vi) ==
    IF names = <<>> THEN r
    ELSE AppendNames(DictSet(r, Head(names), Append(r[Head(names)], vi)),
                     Tail(names), vi)

RECURSIVE ScanFrom(_, _)
\* the loop of line 1513, from vertex vi on
ScanFrom(r, vi) ==
    IF vi >= n_verts THEN r
    ELSE ScanFrom(AppendNames(r, ZoneAppends(vi), vi), vi + 1)

\* Mutant of _position_only_regions: the loop runs over
\* reversed(range(n_verts)).
_position_only_regions_Reversed ==
    [name \in ZoneNames |->
        LET l == ScanFrom(EmptyRegions, 0)[name]
        IN  [i \in 1..Len(l) |-> l[Len(l) + 1 - i]]]

_position_only_regions == ScanFrom(EmptyRegions, 0)

\* convert_flame_model line 1167: no masks were loaded
PositionOnly ==
    /\ pc = "start"
    /\ convert_dispatch = "classifier"
    /\ component' = "classifier"
    /\ regions' = _position_only_regions
    /\ div0' = (div0 \/ pos_y_range = 0 \/ pos_x_range = 0)
    /\ pc' = "done"
    /\ calls' = calls + 1
    /\ UNCHANGED <<v_template, flame_masks, fm, face_remainder, first_regions, v_loaded, files_written>>

Next ==
    \/ Normalise
    \/ SubdivideRegions
    \/ Temples
    \/ FullFace
    \/ PositionOnly

Spec == Init /\ [][Next]_vars

(* ---- two calls of the Subdivider on the same inputs ---- *)
\* The caller keeps the first result and calls again with the same vertex
\* array and the same mapping.
CallAgain ==
    /\ pc = "done"
    /\ component = "subdivider"
    /\ calls = 1
    /\ first_regions' = regions
    /\ pc' = "start"
    /\ UNCHANGED <<v_template, flame_masks, fm, face_remainder, regions,
                   component, div0, calls, v_loaded, files_written>>

InitTwice ==
    /\ \E n \in 1..PairMaxN :
          /\ v_template \in [1..n -> Points]
          /\ \E K \in KeySets(n) : \E m \in [K -> BoolMasks(n)] :
                flame_masks = Masks(m)
    /\ v_loaded = TRUE
    /\ Fresh

NextTwice ==
    \/ Normalise
    \/ SubdivideRegions
    \/ Temples
    \/ FullFace
    \/ CallAgain

SpecTwice == InitTwice /\ [][NextTwice]_vars

(* ---- the Subdivider on the forehead / scalp family ---- *)
InitTemple ==
    /\ v_template \in TempleMeshes
    /\ \E m \in TempleMaps : flame_masks = Masks(m)
    /\ v_loaded = TRUE
    /\ Fresh

NextTemple ==
    \/ Normalise
    \/ SubdivideRegions
    \/ Temples
    \/ FullFace

SpecTemple == InitTemple /\ [][NextTemple]_vars

(* ---- the Subdivider on meshes that spread over a wider box ---- *)
\* Meshes of FrameN vertices: the two opposite corners of the bounding box
\* first and last, the other vertices anywhere in the box, in non-decreasing
\* order.
FramePoints == { <<px, py, 0>> : px \in (0 - FrameX)..FrameX, py \in 0..FrameY }
FrameMeshes ==
    { a \in [1..FrameN -> FramePoints] :
        /\ a[1] = <<0 - FrameX, 0, 0>>
        /\ a[FrameN] = <<FrameX, FrameY, 0>>
        /\ \A i \in 2..(FrameN - 2) : PointLeq(a[i], a[i + 1]) }
Ones(m) == Cardinality({ i \in DOMAIN m.arr : m.arr[i] = 1 })
FrameMasks(k) == { m \in BoolMasks(FrameN) : Ones(m) = k }

\* The face with at most one vertex left out, never a corner, alone or with
\* one vertex that is not a corner in one of the specific regions; or the
\* whole face with two nose vertices and one lips vertex.
FaceMasks ==
    { m \in FrameMasks(FrameN) \cup FrameMasks(FrameN - 1) :
        m.arr[1] = 1 /\ m.arr[FrameN] = 1 }
FaceMaps ==
    { [k \in {"face"} |-> m] : m \in FaceMasks }
    \cup { [k \in {"face", other} |-> IF k = "face" THEN m ELSE o] :
             m \in FaceMasks, other \in SpecificKeys,
             o \in { a \in FrameMasks(1) : a.arr[1] = 0 /\ a.arr[FrameN] = 0 } }
    \cup { [k \in {"face", "nose", "lips"} |->
                IF k = "face" THEN m ELSE IF k = "nose" THEN o ELSE l] :
             m \in FrameMasks(FrameN), o \in FrameMasks(2), l \in FrameMasks(1) }

\* The nose alone or the lips alone, as any mask over the mesh.
InitNoseLips ==
    /\ v_template \in FrameMeshes
    /\ \E k \in {"nose", "lips"}, m \in BoolMasks(FrameN) :
           flame_masks = Masks([j \in {k} |-> m])
    /\ v_loaded = TRUE
    /\ Fresh

NextNoseLips ==
    \/ Normalise
    \/ SubdivideRegions
    \/ Temples
    \/ FullFace

SpecNoseLips == InitNoseLips /\ [][NextNoseLips]_vars

\* One of the regions that zones are cut from, as any mask over a wide mesh;
\* or the forehead / scalp family.
DerivedKeys ==
    { "forehead", "left_eye_region", "right_eye_region", "nose", "lips", "scalp",
      "face" }
InitDerived ==
    /\ \/ /\ v_template \in FrameMeshes
          /\ \E k \in DerivedKeys, m \in BoolMasks(FrameN) :
                 flame_masks = Masks([j \in {k} |-> m])
       \/ /\ v_template \in TempleMeshes
          /\ \E m \in TempleMaps : flame_masks = Masks(m)
    /\ v_loaded = TRUE
    /\ Fresh

NextDerived ==
    \/ Normalise
    \/ SubdivideRegions
    \/ Temples
    \/ FullFace

SpecDerived == InitDerived /\ [][NextDerived]_vars

InitFace ==
    /\ v_template \in FrameMeshes
    /\ \E m \in FaceMaps : flame_masks = Masks(m)
    /\ v_loaded = TRUE
    /\ Fresh

NextFace ==
    \/ Normalise
    \/ SubdivideRegions
    \/ Temples
    \/ FullFace

SpecFace == InitFace /\ [][NextFace]_vars

(* ---- the Position-Only Classifier alone ---- *)
\* convert_flame_model found no mapping: only vertex positions are given.
\* Meshes of three vertices on a finer grid: two opposite corners of the
\* bounding box, in either order, and one vertex anywhere in the box at any
\* of the three positions.
GridPoints ==
    { <<a, b, c>> : a \in (0 - PosGridX)..PosGridX, b \in 0..PosGridY, c \in 0..1 }
GridMeshes ==
    { [i \in 1..3 |->
          IF i = k THEN p
          ELSE IF ((k = 1 /\ i = 2) \/ (k # 1 /\ i = 1)) = low_first
               THEN <<0 - PosGridX, 0, 0>>
               ELSE <<PosGridX, PosGridY, 1>>] :
      p \in GridPoints, k \in 1..3, low_first \in BOOLEAN }

InitPos ==
    /\ \/ \E n \in 1..PosMaxN : v_template \in [1..n -> PosPoints]
       \/ v_template \in GridMeshes
    /\ flame_masks = NoMasks
    /\ v_loaded = TRUE
    /\ Fresh

NextPos == PositionOnly

SpecPos == InitPos /\ [][NextPos]_vars

(* ---- one run of convert_flame_model, step 3 (lines 1110-1193) ---- *)
\* lines 1149-1165 and 1175-1193: the branch that called a component writes
\* flame_regions.json
WriteRegionsFile ==
    /\ pc = "done"
    /\ files_written' = files_written + 1
    /\ pc' = "finished"
    /\ UNCHANGED <<v_template, flame_masks, fm, face_remainder, regions,
                   component, div0, calls, first_regions, v_loaded>>

\* lines 1130 and 1167 both false: step 3 does nothing
NoRegions ==
    /\ pc = "start"
    /\ convert_dispatch = "neither"
    /\ pc' = "finished"
    /\ UNCHANGED <<v_template, flame_masks, fm, face_remainder, regions,
                   component, div0, calls, first_regions, v_loaded,
                   files_written>>

\* The run reached step 3 with or without vertex positions, and with a
\* mapping or with None.
InitRun ==
    /\ \/ /\ v_loaded = TRUE
          /\ \E n \in 1..PairMaxN :
                \/ /\ v_template \in [1..n -> Points]
                   /\ \E m \in MaskMaps(n) : flame_masks = Masks(m)
                \/ /\ v_template \in [1..n -> PosPoints]
                   /\ flame_masks = NoMasks
       \/ /\ v_loaded = FALSE
          /\ v_template = <<>>
          /\ \/ flame_masks = NoMasks
             \/ \E m \in MaskMaps(1) : flame_masks = Masks(m)
    /\ Fresh

NextRun ==
    \/ Normalise
    \/ SubdivideRegions
    \/ Temples
    \/ FullFace
    \/ PositionOnly
    \/ WriteRegionsFile
    \/ NoRegions

SpecRun == InitRun /\ [][NextRun]_vars

(* ======================================================================= *)
(* Properties                                                              *)
(* ======================================================================= *)
Done == pc = "done"
SubDone == pc = "done" /\ component = "subdivider"
Converted == component = "subdivider" /\ pc \in {"regions", "temples", "full_face", "done"}
InputKeys == DOMAIN flame_masks.items
StrictlyIncreasing(s) == \A i \in 1..(Len(s) - 1) : s[i] < s[i + 1]
DuplicateFree(s) == \A i, j \in DOMAIN s : i # j => s[i] # s[j]
Empty(name) == regions[name] = <<>>
AllEmpty(names) == \A name \in names : Empty(name)
\* the vertex set a mapping value denotes
Denoted(v) ==
    CASE v.kind = "bool" -> { i - 1 : i \in { j \in DOMAIN v.arr : v.arr[j] = 1 } }
      [] v.kind = "ints" -> SeqToSet(v.arr)
      [] OTHER -> {}

\* C1: the zone map either component returns has exactly the 61 names of
\* ALL_CLINICAL_ZONES as its keys, whatever keys the mapping has.
C1_KeySetIsTheZoneNames ==
    Done => /\ DOMAIN regions = ZoneNames
            /\ Cardinality(DOMAIN regions) = 61

\* C1 witness: a Subdivider run returned for a mapping with an unrecognised
\* key and without the nose key, with some zone filled.
C1_Witness ==
    /\ SubDone
    /\ "boundary" \in InputKeys
    /\ "nose" \notin InputKeys
    /\ ~Empty("neck")

\* C2: every zone list the Subdivider returns is strictly increasing, for
\* regions given as boolean masks or as duplicate-free index lists in any
\* order.
C2_ZoneListsStrictlyIncreasing ==
    (SubDone /\ \A k \in InputKeys :
                   \/ flame_masks.items[k].kind = "bool"
                   \/ /\ flame_masks.items[k].kind = "ints"
                      /\ DuplicateFree(flame_masks.items[k].arr))
    => \A name \in DOMAIN regions : StrictlyIncreasing(regions[name])

C4_FullFaceIsSuperset ==
    Done => \A name \in DOMAIN regions \ {"neck", "ear_left", "ear_right"} :
                SeqToSet(regions[name]) \subseteq SeqToSet(regions["full_face"])

\* C4 witness: the scalp fallback filled temple_left from a scalp vertex that
\* is in no forehead region, and the Subdivider returned.
C4_Witness ==
    /\ SubDone
    /\ ~Empty("temple_left")
    /\ SeqToSet(regions["temple_left"]) \cap SeqToSet(forehead_idx) = {}

\* C5: a coarse region key absent from the mapping leaves every zone derived
\* from that key alone empty.
ForeheadZones ==
    { "forehead", "forehead_left", "forehead_right", "forehead_center",
      "brow_left", "brow_right", "brow_inner_left", "brow_inner_right" }
EyeZones(side) ==
    { "eye_" \o side \o "_upper", "eye_" \o side \o "_lower",
      "eye_" \o side \o "_corner_inner", "eye_" \o side \o "_corner_outer",
      "under_eye_" \o side, "tear_trough_" \o side }
NoseZones ==
    { "nose_bridge", "nose_bridge_upper", "nose_bridge_lower", "nose_dorsum",
      "nose_tip", "nose_tip_left", "nose_tip_right",
      "nostril_left", "nostril_right" }
LipZones ==
    { "lip_upper", "lip_upper_left", "lip_upper_right", "lip_upper_center",
      "lip_lower", "lip_lower_left", "lip_lower_right", "lip_lower_center",
      "lip_corner_left", "lip_corner_right" }
FaceZones ==
    { "chin", "chin_center", "chin_left", "chin_right",
      "jaw_left", "jaw_right", "jawline_left", "jawline_right",
      "cheek_left", "cheek_right", "cheekbone_left", "cheekbone_right",
      "cheek_hollow_left", "cheek_hollow_right",
      "nasolabial_left", "nasolabial_right" }
C5_AbsentKeyGivesEmptyZones ==
    SubDone =>
      /\ "forehead" \notin InputKeys => AllEmpty(ForeheadZones)
      /\ "left_eye_region" \notin InputKeys => AllEmpty(EyeZones("left"))
      /\ "right_eye_region" \notin InputKeys => AllEmpty(EyeZones("right"))
      /\ "nose" \notin InputKeys => AllEmpty(NoseZones)
      /\ "lips" \notin InputKeys => AllEmpty(LipZones)
      /\ "face" \notin InputKeys => AllEmpty(FaceZones)
      /\ "left_ear" \notin InputKeys => Empty("ear_left")
      /\ "right_ear" \notin InputKeys => Empty("ear_right")
      /\ "neck" \notin InputKeys => Empty("neck")

\* C5 witness: forehead is absent while scalp is present and non-empty, and
\* another region filled its zones.
C5_Witness ==
    /\ SubDone
    /\ "forehead" \notin InputKeys
    /\ Len(scalp_idx) > 0
    /\ "face" \in InputKeys
    /\ ~Empty("chin")

\* C6: with every region key absent, None, or a boolean mask or index list
\* (possibly empty), the Subdivider raises nowhere; and when every region
\* converts to the empty index set, every zone of the returned map is empty.
WellFormed ==
    \A k \in InputKeys : flame_masks.items[k].kind \in {"none", "bool", "ints"}
C7_SingleVertexEmptyMapping ==
    (n_verts = 1 /\ ~flame_masks.is_none /\ InputKeys = {}) =>
      /\ pc # "raised"
      /\ ~div0
      /\ Done => /\ DOMAIN regions = ZoneNames
                 /\ \A name \in DOMAIN regions : regions[name] \in {<<>>, <<0>>}

\* C7 witness: the run on one vertex and an empty mapping returned.
C7_Witness == SubDone /\ n_verts = 1 /\ InputKeys = {}

\* C8: an absent or malformed region value (None, an empty array, a value
\* that is neither a boolean mask nor a list of integers) becomes the empty
\* index set, and the conversion never raises.
C8_MalformedBecomesEmpty ==
    /\ pc # "raised"
    /\ Converted =>
         \A k \in InputKeys :
             (flame_masks.items[k].kind \in {"none", "str"}
                \/ flame_masks.items[k].arr = <<>>) => fm[k] = <<>>

\* C9: an explicit index list converts to exactly the set of its indices, and
\* a boolean mask of length N to exactly its true positions.
C9_ListAndMaskDenoteTheirSet ==
    Converted =>
      \A k \in InputKeys :
          flame_masks.items[k].kind \in {"bool", "ints"} =>
              SeqToSet(fm[k]) = Denoted(flame_masks.items[k])

\* C10: two calls of the Subdivider with the same vertex array and the same
\* mapping return the same zone map: same keys, same lists in the same order.
C10_SecondCallReturnsTheSame ==
    (SubDone /\ calls = 2) => regions = first_regions

\* C10 witness: the second call returned a zone map whose full_face and chin
\* hold two indices each (both went through a Python set).
C10_Witness ==
    /\ SubDone
    /\ calls = 2
    /\ Len(regions["full_face"]) >= 2
    /\ Len(face_remainder) >= 2

\* C11: in one run of convert_flame_model at most one classification path
\* is called and flame_regions.json is written at most once; a run with
\* vertex positions that reaches the end of step 3 has called exactly one
\* path and written the file exactly once, the Subdivider if a mapping was
\* loaded and the Classifier otherwise; a run without vertex positions calls
\* neither and writes nothing.
C11_ExactlyOnePathRuns ==
    /\ calls <= 1
    /\ files_written <= 1
    /\ (component = "subdivider" => v_loaded /\ ~flame_masks.is_none)
    /\ (component = "classifier" => v_loaded /\ flame_masks.is_none)
    /\ (pc = "finished" /\ v_loaded =>
          /\ calls = 1
          /\ files_written = 1
          /\ component = IF flame_masks.is_none THEN "classifier" ELSE "subdivider")
    /\ (~v_loaded => calls = 0 /\ files_written = 0 /\ component = "none")

C11_Witness ==
    /\ pc = "finished"
    /\ v_loaded
    /\ component = "subdivider"
    /\ files_written = 1
    /\ regions["full_face"] # <<>>


ClassifierDone == pc = "done" /\ component = "classifier"

\* C12: the zone map the Position-Only Classifier returns has the 61 zone
\* names as keys, every list strictly increasing (so duplicate-free) and
\* every index in 0 .. N-1.
C12_ClassifierListsSortedInRange ==
    ClassifierDone =>
        /\ DOMAIN regions = ZoneNames
        /\ \A name \in ZoneNames :
              /\ StrictlyIncreasing(regions[name])
              /\ SeqToSet(regions[name]) \subseteq 0..(n_verts - 1)

\* C12 witness: the Classifier returned a full_face of at least two
\* vertices, a filled neck and a filled zone of the face.
C12_Witness ==
    /\ ClassifierDone
    /\ Len(regions["full_face"]) >= 2
    /\ ~Empty("neck")
    /\ \E name \in ZoneNames \ {"full_face", "neck"} : ~Empty(name)


EyeKey(side) == IF side = "left" THEN "left_eye_region" ELSE "right_eye_region"
EyeballKey(side) == IF side = "left" THEN "left_eyeball" ELSE "right_eyeball"
\* the eye region of a side is filled and its eyeball region covers it
TotalOverlap(side) ==
    /\ SubDone
    /\ DictGet(fm, EyeKey(side)) # <<>>
    /\ SeqToSet(DictGet(fm, EyeKey(side))) \subseteq SeqToSet(DictGet(fm, EyeballKey(side)))
EyeSkinZones(side) ==
    { "eye_" \o side \o "_upper", "eye_" \o side \o "_lower",
      "eye_" \o side \o "_corner_inner", "eye_" \o side \o "_corner_outer",
      "under_eye_" \o side }

\* C13 as stated: when the eyeball region of a side covers its filled eye
\* region, the eye-skin-derived zones of that side are all empty.
C13_TotalOverlapGivesEmptyEyeZones ==
    \A side \in {"left", "right"} :
        TotalOverlap(side) => AllEmpty(EyeSkinZones(side))

\* C13 amended: when the eyeball region of a side covers its filled eye
\* region, the eye region itself is split: eye_{side}_upper holds its
\* vertices above the region's median y, eye_{side}_lower and
\* under_eye_{side} hold the others, and the two are not both empty.
C13_TotalOverlapSplitsTheEyeRegion ==
    \A side \in {"left", "right"} :
        TotalOverlap(side) =>
            LET eye == DictGet(fm, EyeKey(side))
                med == _median_y(eye)
            IN  /\ SeqToSet(regions["eye_" \o side \o "_upper"])
                      = { vi \in SeqToSet(eye) : y(vi) > med }
                /\ SeqToSet(regions["eye_" \o side \o "_lower"])
                      = { vi \in SeqToSet(eye) : y(vi) <= med }
                /\ regions["under_eye_" \o side] = regions["eye_" \o side \o "_lower"]
                /\ ~AllEmpty({"eye_" \o side \o "_upper", "eye_" \o side \o "_lower"})

\* C13 witness: a left eye region of two vertices at different heights,
\* covered by the left eyeball region, was subdivided.
C13_Witness ==
    /\ TotalOverlap("left")
    /\ Len(DictGet(fm, "left_eye_region")) = 2
    /\ ~Empty("eye_left_upper")
    /\ ~Empty("eye_left_lower")


\* the nose vertices above the nose's low percentile plus 40% of its
\* percentile range
NoseUpperBand ==
    LET lo == _percentile_y(nose_idx, 5)
        hi == _percentile_y(nose_idx, 95)
    IN  { vi \in SeqToSet(nose_idx) : y(vi) > lo + Frac(hi - lo, 40, 100) }
\* the nose vertices inside the x-band around the midline
NoseMidlineBand ==
    LET lo == _percentile_x(nose_idx, 10)
        hi == _percentile_x(nose_idx, 90)
    IN  { vi \in SeqToSet(nose_idx) :
            Abs(x(vi) - midline_x) < Frac(hi - lo, 35, 100) }

\* C14: nose_bridge is exactly the nose vertices in the upper band of the
\* nose's y-range and inside the x-band around the midline; when every nose
\* vertex has its x on the midline, nose_bridge is the whole upper band.
C14_NoseBridgeIsUpperMidlineBand ==
    (SubDone /\ Len(nose_idx) > 0) =>
        /\ SeqToSet(regions["nose_bridge"]) = NoseUpperBand \cap NoseMidlineBand
        /\ (\A vi \in SeqToSet(nose_idx) : x(vi) = midline_x)
              => SeqToSet(regions["nose_bridge"]) = NoseUpperBand


\* C15: in the Position-Only Classifier no division by zero occurs; with a
\* degenerate y range every vertex is classified with normalised y = 0, so
\* it is in neck; with a degenerate x range every vertex is classified with
\* normalised x = 0, so a front vertex with normalised y between 0.35 and
\* 0.60 is in nose_bridge.
C15_DegenerateAxisNormalisesToZero ==
    ClassifierDone =>
        /\ ~div0
        /\ pos_y_range = 0 => SeqToSet(regions["neck"]) = 0..(n_verts - 1)
        /\ (pos_x_range = 0 /\ pos_y_range # 0) =>
              \A vi \in 0..(n_verts - 1) :
                  (IsFront(vi) /\ YnBetween(vi, 35, 60))
                      => vi \in SeqToSet(regions["nose_bridge"])


\* C16: in the zone map of the Position-Only Classifier a vertex is in neck
\* if and only if its normalised y, (y - y_min) / y_range as line 1515
\* computes it, is below 0.10, whether or not the vertex is front-facing.
\* With a y range of 0 the quotient is NaN, which is not below 0.10.
C16_NeckIsDecidedBeforeTheGate ==
    ClassifierDone =>
        \A vi \in 0..(n_verts - 1) :
            vi \in SeqToSet(regions["neck"])
              <=> /\ pos_y_range > 0
                  /\ 10 * (y(vi) - pos_y_min) < pos_y_range

\* C16 witness: neck holds a vertex that is not front-facing and one that
\* is, and a vertex higher up is not in neck.
C16_Witness ==
    /\ ClassifierDone
    /\ \E vi, vj \in SeqToSet(regions["neck"]) : ~IsFront(vi) /\ IsFront(vj)
    /\ SeqToSet(regions["neck"]) # 0..(n_verts - 1)

\* C17: in the zone map of the Position-Only Classifier a vertex whose z is
\* not strictly above the midpoint of the z bounding box is in no zone
\* other than neck.
C17_BackVerticesOnlyInNeck ==
    ClassifierDone =>
        \A vi \in 0..(n_verts - 1) :
            ~(2 * z(vi) > pos_z_sum) =>
                \A name \in ZoneNames \ {"neck"} :
                    vi \notin SeqToSet(regions[name])

\* C17 witness: a vertex at or below the z midpoint and above the neck band
\* is in no zone while a front vertex is in full_face.
C17_Witness ==
    /\ ClassifierDone
    /\ ~Empty("full_face")
    /\ \E vi \in 0..(n_verts - 1) :
          /\ ~IsFront(vi)
          /\ YnGt(vi, 10)
          /\ \A name \in ZoneNames : vi \notin SeqToSet(regions[name])


\* C18: in the zone map the Subdivider returns, ear_left, ear_right and
\* neck hold exactly the indices of the coarse regions left_ear, right_ear
\* and neck, whatever the other coarse regions are.
C18_EarsAndNeckPassThrough ==
    SubDone =>
        /\ SeqToSet(regions["ear_left"]) = SeqToSet(DictGet(fm, "left_ear"))
        /\ SeqToSet(regions["ear_right"]) = SeqToSet(DictGet(fm, "right_ear"))
        /\ SeqToSet(regions["neck"]) = SeqToSet(DictGet(fm, "neck"))

\* C18 witness: a filled neck region shares a vertex with the face region
\* and the vertex is in the neck zone.
C18_Witness ==
    /\ SubDone
    /\ \E vi \in SeqToSet(DictGet(fm, "neck")) \cap SeqToSet(DictGet(fm, "face")) :
          vi \in SeqToSet(regions["neck"])


\* C19: in the zone map either component returns, nose_dorsum and
\* nose_bridge are the same list.
C19_DorsumIsBridge ==
    Done => regions["nose_dorsum"] = regions["nose_bridge"]

\* C19 witness: the Subdivider returned a filled nose_bridge that is not
\* the whole nose region.
C19_Witness ==
    /\ SubDone
    /\ ~Empty("nose_bridge")
    /\ SeqToSet(regions["nose_bridge"]) # SeqToSet(DictGet(fm, "nose"))


\* C20: in the zone map the Subdivider returns, the indices of full_face
\* are exactly those of the zones other than neck, ear_left, ear_right and
\* full_face together with those of the coarse regions face, forehead,
\* nose, lips, left_eye_region and right_eye_region; nothing else (scalp,
\* eyeball, ear or neck regions) adds an index.
C20_FullFaceIsExactlyTheUnion ==
    SubDone =>
        SeqToSet(regions["full_face"])
          = UNION { SeqToSet(regions[name]) :
                      name \in ZoneNames \ {"neck", "ear_left", "ear_right", "full_face"} }
            \cup UNION { SeqToSet(DictGet(fm, k)) :
                      k \in {"face", "forehead", "nose", "lips",
                             "left_eye_region", "right_eye_region"} }

\* C20 witness: full_face is filled, has a scalp-derived temple vertex and
\* leaves out another vertex of the scalp region.
C20_Witness ==
    /\ SubDone
    /\ \E vi \in SeqToSet(DictGet(fm, "scalp")) :
          /\ vi \in SeqToSet(regions["full_face"])
          /\ vi \notin SeqToSet(DictGet(fm, "forehead"))
    /\ \E vi \in SeqToSet(DictGet(fm, "scalp")) :
          vi \notin SeqToSet(regions["full_face"])


EyeSkinOf(side) ==
    SelectSeq(DictGet(fm, EyeKey(side)),
              LAMBDA vi : vi \notin SeqToSet(DictGet(fm, EyeballKey(side))))

\* C22: when removing the eyeball indices leaves eye-skin vertices, they
\* are split at the median y of the eye-skin vertices themselves:
\* eye_{side}_upper holds those strictly above it, eye_{side}_lower the
\* others.
C22_EyeSkinSplitAtItsOwnMedian ==
    \A side \in {"left", "right"} :
        (SubDone /\ EyeSkinOf(side) # <<>>) =>
            LET med == _median_y(EyeSkinOf(side))
            IN  /\ SeqToSet(regions["eye_" \o side \o "_upper"])
                      = { vi \in SeqToSet(EyeSkinOf(side)) : y(vi) > med }
                /\ SeqToSet(regions["eye_" \o side \o "_lower"])
                      = { vi \in SeqToSet(EyeSkinOf(side)) : y(vi) <= med }


\* C23: when removing the eyeball indices from a filled eye region leaves
\* no vertex, the eye region itself is subdivided: eye_{side}_upper and
\* eye_{side}_lower together hold exactly the indices of the eye region,
\* and the corner, under-eye and tear-trough zones of the side hold only
\* indices of the eye region.
C23_EmptiedEyeSkinFallsBackToEyeRegion ==
    \A side \in {"left", "right"} :
        (SubDone /\ DictGet(fm, EyeKey(side)) # <<>> /\ EyeSkinOf(side) = <<>>) =>
            LET eye == SeqToSet(DictGet(fm, EyeKey(side)))
            IN  /\ SeqToSet(regions["eye_" \o side \o "_upper"])
                      \cup SeqToSet(regions["eye_" \o side \o "_lower"]) = eye
                /\ \A name \in EyeSkinZones(side) \cup {"tear_trough_" \o side} :
                      SeqToSet(regions[name]) \subseteq eye

\* C23 witness: the right eyeball region holds the one vertex of the right
\* eye region and another vertex, and the eye vertex is in an eye zone.
C23_Witness ==
    /\ SubDone
    /\ Len(DictGet(fm, "right_eye_region")) = 1
    /\ EyeSkinOf("right") = <<>>
    /\ Len(DictGet(fm, "right_eyeball")) = 2
    /\ ~AllEmpty({"eye_right_upper", "eye_right_lower"})


\* the scalp vertices strictly below the scalp's median y
ScalpLow ==
    { vi \in SeqToSet(scalp_idx) : y(vi) < _median_y(scalp_idx) }

\* C24: the step after the region stages leaves the zone map as it is
\* unless temple_left is empty and the scalp region is filled, whatever
\* temple_right holds; when temple_left is empty, the scalp region is filled
\* and has a vertex below its median y, both temple zones become sets of
\* such scalp vertices.
C24_FallbackRunsIffLeftTempleEmpty ==
    [][pc = "temples" =>
          IF regions["temple_left"] = <<>> /\ Len(scalp_idx) > 0
          THEN ScalpLow # {} =>
                 /\ SeqToSet(regions'["temple_left"]) \subseteq ScalpLow
                 /\ SeqToSet(regions'["temple_right"]) \subseteq ScalpLow
          ELSE regions' = regions]_vars

\* C24 witness: the call returned a forehead-derived temple_left and an
\* empty temple_right although the scalp region has vertices below its
\* median y.
C24_Witness ==
    /\ SubDone
    /\ \E vi \in SeqToSet(regions["temple_left"]) : vi \notin SeqToSet(scalp_idx)
    /\ Empty("temple_right")
    /\ ScalpLow # {}


\* what the forehead stage stores in a temple zone
ForeheadTemple(name) == ForeheadSubdivision(EmptyRegions)[name]

\* C30: when the region stages leave temple_left empty and temple_right
\* filled and the scalp region has a vertex strictly below its median y,
\* the next step replaces temple_right by the scalp vertices below the
\* median whose x is under the 30th x-percentile of those vertices; no
\* forehead-derived index is kept.
C30_FallbackReplacesRightTemple ==
    [][(/\ pc = "temples"
        /\ regions["temple_left"] = <<>>
        /\ regions["temple_right"] # <<>>
        /\ ScalpLow # {})
       => LET scalp_low == SelectSeq(scalp_idx, LAMBDA vi : vi \in ScalpLow)
          IN  SeqToSet(regions'["temple_right"])
                = { vi \in ScalpLow : x(vi) < _percentile_x(scalp_low, 30) }]_vars

\* C30 witness: the forehead stage gave an empty temple_left and a
\* temple_right with a vertex outside the scalp region, the scalp region has
\* a vertex below its median y, and the call returned a temple_right of
\* scalp vertices only.
C30_Witness ==
    /\ SubDone
    /\ ForeheadTemple("temple_left") = <<>>
    /\ \E vi \in SeqToSet(ForeheadTemple("temple_right")) : vi \notin SeqToSet(scalp_idx)
    /\ ScalpLow # {}
    /\ SeqToSet(regions["temple_right"]) \subseteq SeqToSet(scalp_idx)

(* ---- C25 ---- *)
AfterRegions ==
    component = "subdivider" /\ pc \in {"temples", "full_face", "done"}
InSpecificRegion(vi) ==
    \E k \in SpecificKeys : vi \in SeqToSet(DictGet(fm, k))

\* C25: every index of a face-remainder zone (chin, jaw, jawline, cheek,
\* cheekbone, cheek hollow, nasolabial) is in the coarse face region and in
\* none of nose, lips, forehead, the eye regions, neck, the ears and the
\* eyeballs; the remainder is assigned only by the step that starts the run,
\* which leaves every zone empty, and never again.
C25_FaceZonesComeFromTheRemainder ==
    [][ /\ AfterRegions' =>
              \A name \in FaceZones : \A vi \in SeqToSet(regions'[name]) :
                  /\ vi \in SeqToSet(face_idx')
                  /\ ~InSpecificRegion(vi)'
        /\ face_remainder' # face_remainder =>
              pc = "start" /\ regions' = EmptyRegions ]_vars

\* C25 witness: a specific region shares a vertex with the face, and chin
\* and jaw zones are filled.
C25_Witness ==
    /\ SubDone
    /\ \E vi \in SeqToSet(face_idx) : InSpecificRegion(vi)
    /\ ~Empty("chin") /\ ~Empty("jaw_right")

(* ---- C26 ---- *)
BridgeMedian == _median_y(regions["nose_bridge"])
BridgeAbove ==
    { vi \in SeqToSet(regions["nose_bridge"]) : y(vi) > BridgeMedian }

\* C26: nose_bridge_upper and nose_bridge_lower partition nose_bridge at the
\* median y of the bridge: the bridge vertices strictly above it are
\* nose_bridge_upper, those at or below it are nose_bridge_lower.
C26_BridgeSplitAtItsOwnMedian ==
    AfterRegions =>
        /\ SeqToSet(regions["nose_bridge_upper"]) = BridgeAbove
        /\ SeqToSet(regions["nose_bridge_lower"])
              = SeqToSet(regions["nose_bridge"]) \ BridgeAbove

\* C26 witness: the bridge has a vertex above its median and one at or below
\* it, and its median is not the median of the nose.
C26_Witness ==
    /\ SubDone
    /\ ~Empty("nose_bridge_upper") /\ ~Empty("nose_bridge_lower")
    /\ BridgeMedian # _median_y(nose_idx)

(* ---- C27 ---- *)
Zone(name) == SeqToSet(regions[name])
ChinHalfWidth ==
    Frac(MaxOf(SeqToSet(xs(face_remainder))) - MinOf(SeqToSet(xs(face_remainder))),
         25, 100)
MidlineDistance(vi) == Abs(x(vi) - midline_x)
JawZones == Zone("jaw_left") \cup Zone("jaw_right")
                \cup Zone("jawline_left") \cup Zone("jawline_right")

\* C27: no vertex is in both chin and a jaw zone: a chin vertex is a
\* face-remainder vertex nearer to the midline than the chin half-width, a
\* jaw vertex is at least that far from it; jaw_left and jaw_right are
\* disjoint, jaw_left holding x above the midline and jaw_right x at or
\* below it.
C27_ChinAndJawAreDisjoint ==
    AfterRegions =>
        /\ Zone("chin") \cap JawZones = {}
        /\ \A vi \in Zone("chin") :
              /\ vi \in SeqToSet(face_remainder)
              /\ MidlineDistance(vi) < ChinHalfWidth
        /\ \A vi \in JawZones : MidlineDistance(vi) >= ChinHalfWidth
        /\ Zone("jaw_left") \cap Zone("jaw_right") = {}
        /\ \A vi \in Zone("jaw_left") : x(vi) > midline_x
        /\ \A vi \in Zone("jaw_right") : x(vi) <= midline_x

\* C27 witness: chin and both jaw zones are filled.
C27_Witness ==
    SubDone /\ ~Empty("chin") /\ ~Empty("jaw_left") /\ ~Empty("jaw_right")

(* ---- C28 ---- *)
UpperLipThirds == { "lip_upper_left", "lip_upper_center", "lip_upper_right" }
LowerLipThirds == { "lip_lower_left", "lip_lower_center", "lip_lower_right" }
ZonesHolding(vi, names) == { name \in names : vi \in Zone(name) }

\* C28: for a non-empty lips region, every lips vertex is in exactly one of
\* lip_upper and lip_lower, in lip_upper exactly when its y is strictly above
\* the median y of the region, and in exactly one of the six left / center /
\* right zones; lip_upper is the union of its three zones and lip_lower of
\* its three.
C28_LipsArePartitioned ==
    (AfterRegions /\ Len(lips_idx) > 0) =>
        /\ \A vi \in SeqToSet(lips_idx) :
              /\ Cardinality(ZonesHolding(vi, {"lip_upper", "lip_lower"})) = 1
              /\ vi \in Zone("lip_upper") <=> y(vi) > _median_y(lips_idx)
              /\ Cardinality(ZonesHolding(vi, UpperLipThirds \cup LowerLipThirds)) = 1
        /\ Zone("lip_upper") = UNION { Zone(name) : name \in UpperLipThirds }
        /\ Zone("lip_lower") = UNION { Zone(name) : name \in LowerLipThirds }

\* C28 witness: both halves of the lips are filled, a lips vertex lies at the
\* median y, and left, center and right zones are filled.
C28_Witness ==
    /\ SubDone
    /\ ~Empty("lip_upper") /\ ~Empty("lip_lower")
    /\ \E vi \in SeqToSet(lips_idx) : y(vi) = _median_y(lips_idx)
    /\ ~Empty("lip_upper_left") /\ ~Empty("lip_lower_center")
    /\ ~Empty("lip_lower_right")

(* ---- C29 ---- *)
Coarse(k) == SeqToSet(DictGet(fm, k))
AllCoarse == UNION { Coarse(k) : k \in DOMAIN fm }
ZonesWithin(names, S) == \A name \in names : Zone(name) \subseteq S

\* C29: no zone holds an index that its coarse region does not: the forehead
\* and brow zones are within forehead, the eye, under-eye and tear-trough
\* zones of a side within that side's eye region, the nose and nostril zones
\* within nose, the lip zones within lips, the temple zones within forehead
\* and scalp together, and full_face within the union of all the regions
\* supplied.
C29_ZonesStayWithinTheirRegion ==
    AfterRegions =>
        /\ ZonesWithin(ForeheadZones, Coarse("forehead"))
        /\ ZonesWithin(EyeZones("left"), Coarse("left_eye_region"))
        /\ ZonesWithin(EyeZones("right"), Coarse("right_eye_region"))
        /\ ZonesWithin(NoseZones, Coarse("nose"))
        /\ ZonesWithin(LipZones, Coarse("lips"))
        /\ ZonesWithin({"temple_left", "temple_right"},
                       Coarse("forehead") \cup Coarse("scalp"))
        /\ Zone("full_face") \subseteq AllCoarse

\* C29 witness: a temple zone holds a scalp vertex that is not in forehead,
\* and forehead zones and full_face are filled.
C29_Witness ==
    /\ SubDone
    /\ \E vi \in Zone("temple_right") : vi \notin Coarse("forehead")
    /\ ~Empty("forehead_center") /\ ~Empty("full_face")

====
